---- MODULE Spec2Model ----
(***************************************************************************)
(* Model of aphrodite/inputs/preprocess.py: InputPreprocessor, which turns *)
(* a prompt (text, token ids, or an explicit encoder/decoder pair) into    *)
(* DecoderOnlyInputs / EncoderDecoderInputs, in a blocking form            *)
(* (preprocess) and a coroutine form (preprocess_async).                   *)
(*                                                                         *)
(* Python's Optional[T] is modelled as a sequence of length 0 (None) or 1. *)
(* A raised exception is modelled as a result record with ok = FALSE and   *)
(* the name of the error.                                                  *)
(***************************************************************************)
EXTENDS Integers, Sequences, FiniteSets, TLC

VARIABLES
    model_config,     \* self.model_config
    tokenizer,        \* self.tokenizer (Optional[BaseTokenizerGroup])
    pc,               \* position of the current call: idle / await_extract / gather / done
    call,             \* arguments of the current call and its form (sync / async)
    encoder_task,     \* the encoder-side (or only) extraction coroutine
    decoder_task,     \* the decoder-side extraction coroutine
    outcome,          \* what the call handed to its caller: a result or a raised error
    encode_log,       \* tokenizer encode / encode_async calls made for the current call
    build_args,       \* arguments _build_enc_dec_llm_inputs was invoked with, if it was
    synth_args        \* arguments _prepare_decoder_input_ids_for_generation was invoked with

vars == <<model_config, tokenizer, pc, call, encoder_task, decoder_task,
          outcome, encode_log, build_args, synth_args>>

------------------------------------------------------------------------------
(* Optional values *)

None == <<>>

Some(x) == <<x>>

------------------------------------------------------------------------------
(* Bounds and input domains *)

\* largest prompt_adapter_num_virtual_tokens tried
MaxVirtualTokens == 1

\* token ids a model or tokenizer may be configured with
DecoderStartIds == {5}

BosIds == {1, 5}

\* pre-tokenized prompts: empty, not starting with 5, starting with 5
TokenIdSeqs == {<<>>, <<1, 2>>, <<5, 1, 2>>}

\* text prompts; the tokenizer fails on "bad"
Texts == {"hi", "bad"}

\* texts tried with multi-modal data and processor kwargs attached
PayloadTexts == {"hi"}

MultiModalData == {None, Some("image")}

\* an mm_processor_kwargs dict is named by its contents
EmptyKwargs == "{}"

\* the dicts callers pass
KwargsDicts == {"{num_crops: 4}"}

OptKwargs == {None} \cup {Some(k) : k \in KwargsDicts}

LoraRequests == {None, Some("lora1")}

PromptAdapterRequests ==
    {None} \cup {Some([prompt_adapter_num_virtual_tokens |-> n]) : n \in 0..MaxVirtualTokens}

ModelConfigs ==
    [is_encoder_decoder_model : BOOLEAN,
     hf_config : {None} \cup
                 {Some([decoder_start_token_id |-> d]) :
                      d \in {None} \cup {Some(i) : i \in DecoderStartIds}}]

Tokenizers ==
    {None} \cup {Some([bos_token_id |-> b]) : b \in {None} \cup {Some(i) : i \in BosIds}}

\* SingletonPrompt: a str, a TokensPrompt or a TextPrompt
StrPrompts ==
    {[type |-> "str", prompt |-> t, prompt_token_ids |-> <<>>,
      multi_modal_data |-> None, mm_processor_kwargs |-> None] : t \in Texts}

TokensPrompts ==
    {[type |-> "tokens", prompt |-> "", prompt_token_ids |-> i,
      multi_modal_data |-> m, mm_processor_kwargs |-> k] :
        i \in TokenIdSeqs, m \in MultiModalData, k \in OptKwargs}

TextPrompts ==
    {[type |-> "text", prompt |-> t, prompt_token_ids |-> <<>>,
      multi_modal_data |-> m, mm_processor_kwargs |-> k] :
        t \in PayloadTexts, m \in MultiModalData, k \in OptKwargs}

SingletonPrompts == StrPrompts \cup TokensPrompts \cup TextPrompts

\* ExplicitEncoderDecoderPrompt; mm_processor_kwargs is None when the key is missing
ExplicitPrompts ==
    {[type |-> "pair", encoder_prompt |-> e, decoder_prompt |-> d,
      mm_processor_kwargs |-> k] :
        e \in SingletonPrompts,
        d \in {None} \cup {Some(s) : s \in SingletonPrompts},
        k \in OptKwargs}

Prompts == SingletonPrompts \cup ExplicitPrompts

------------------------------------------------------------------------------
(* Results of calls that may raise *)

Ok(v) == [ok |-> TRUE, val |-> v, err |-> ""]

Raise(e) == [ok |-> FALSE, val |-> <<>>, err |-> e]

\* what a caller of preprocess / preprocess_async observes
Returned(v) == [kind |-> "ok", value |-> Some(v), error |-> ""]

Raised(e) == [kind |-> "err", value |-> None, error |-> e]

NoOutcome == [kind |-> "none", value |-> None, error |-> ""]

------------------------------------------------------------------------------
(* Collaborators outside preprocess.py *)

is_explicit_encoder_decoder_prompt(prompt) == prompt.type = "pair"

parse_singleton_prompt(prompt) == prompt.type

\* BaseTokenizerGroup.encode / encode_async: a fixed vocabulary; fails on "bad"
encode(prompt) ==
    IF prompt = "hi" THEN Ok(<<7, 8>>) ELSE Raise("EncodeFailed")

------------------------------------------------------------------------------
(* InputPreprocessor: token lookups *)

is_encoder_decoder_model == model_config.is_encoder_decoder_model

get_bos_token_id ==
    IF tokenizer = None THEN None ELSE tokenizer[1].bos_token_id

get_decoder_start_token_id ==
    IF ~is_encoder_decoder_model THEN None
    ELSE IF model_config.hf_config = None THEN None
    ELSE LET dec_start_token_id == model_config.hf_config[1].decoder_start_token_id
         IN  IF dec_start_token_id = None THEN get_bos_token_id
             ELSE dec_start_token_id

\* variant: without the assert, falling back on the decoder-start token
_get_default_enc_dec_decoder_prompt_fallback ==
    LET bos_token_id == get_bos_token_id
    IN  IF bos_token_id # None THEN Ok(<<bos_token_id[1]>>)
        ELSE IF get_decoder_start_token_id # None
        THEN Ok(<<get_decoder_start_token_id[1]>>)
        ELSE Raise("MissingBosToken")

\* assert bos_token_id is not None (line 128)
_get_default_enc_dec_decoder_prompt ==
    LET bos_token_id == get_bos_token_id
    IN  IF bos_token_id = None THEN Raise("MissingBosToken")
        ELSE Ok(<<bos_token_id[1]>>)

\* variant: force_bos is ignored, nothing is ever prepended
_prepare_decoder_input_ids_never_prepends(decoder_input_ids, force_bos) ==
    LET decoder_start_token_id == get_decoder_start_token_id
    IN  IF decoder_start_token_id = None THEN Raise("MissingDecoderStartToken")
        ELSE IF decoder_input_ids = None
        THEN _get_default_enc_dec_decoder_prompt
        ELSE Ok(decoder_input_ids[1])

\* variant: with force_bos the start token is prepended without looking at the
\* first element
_prepare_decoder_input_ids_always_prepends(decoder_input_ids, force_bos) ==
    LET decoder_start_token_id == get_decoder_start_token_id
    IN  IF decoder_start_token_id = None THEN Raise("MissingDecoderStartToken")
        ELSE LET ids == IF decoder_input_ids = None
                        THEN _get_default_enc_dec_decoder_prompt
                        ELSE Ok(decoder_input_ids[1])
             IN  IF ~ids.ok THEN ids
                 ELSE IF force_bos
                      THEN Ok(<<decoder_start_token_id[1]>> \o ids.val)
                      ELSE Ok(ids.val)

\* assert decoder_start_token_id is not None (line 157)
_prepare_decoder_input_ids_for_generation(decoder_input_ids, force_bos) ==
    LET decoder_start_token_id == get_decoder_start_token_id
    IN  IF decoder_start_token_id = None THEN Raise("MissingDecoderStartToken")
        ELSE LET ids == IF decoder_input_ids = None
                        THEN _get_default_enc_dec_decoder_prompt
                        ELSE Ok(decoder_input_ids[1])
             IN  IF ~ids.ok THEN ids
                 ELSE IF force_bos /\ (Len(ids.val) = 0
                                       \/ ids.val[1] # decoder_start_token_id[1])
                      THEN Ok(<<decoder_start_token_id[1]>> \o ids.val)
                      ELSE Ok(ids.val)

\* variant: the placeholder tokens are appended
_apply_prompt_adapter_appends(prompt_token_ids, prompt_adapter_request) ==
    IF prompt_adapter_request # None
    THEN prompt_token_ids \o
         [i \in 1..prompt_adapter_request[1].prompt_adapter_num_virtual_tokens |-> 0]
    ELSE prompt_token_ids

_apply_prompt_adapter(prompt_token_ids, prompt_adapter_request) ==
    IF prompt_adapter_request # None
    THEN [i \in 1..prompt_adapter_request[1].prompt_adapter_num_virtual_tokens |-> 0]
             \o prompt_token_ids
    ELSE prompt_token_ids

------------------------------------------------------------------------------
(* InputPreprocessor: tokenization and component extraction (blocking) *)

get_tokenizer_group ==
    IF tokenizer = None THEN Raise("TokenizerUnavailable") ELSE Ok(tokenizer[1])

\* one entry of encode_log
EncodeCall(prompt, lora_request) == [prompt |-> prompt, lora_request |-> lora_request]

\* result of a call together with the tokenizer calls it made
WithCalls(r, calls) == [ok |-> r.ok, val |-> r.val, err |-> r.err, calls |-> calls]

_tokenize_prompt(prompt, lora_request) ==
    IF ~get_tokenizer_group.ok THEN WithCalls(get_tokenizer_group, <<>>)
    ELSE WithCalls(encode(prompt), <<EncodeCall(prompt, lora_request)>>)

\* PromptComponents / DecoderPromptComponents
Components(prompt_text, prompt_token_ids, multi_modal_data, mm_processor_kwargs) ==
    [prompt |-> prompt_text, prompt_token_ids |-> prompt_token_ids,
     multi_modal_data |-> multi_modal_data,
     mm_processor_kwargs |-> mm_processor_kwargs]

\* decoder_comps = None, None, None, None
NoComponents == Components(None, None, None, None)

\* variant: a pre-tokenized prompt is sent through the tokenizer like a text prompt
_extract_prompt_components_tokenizes_all(prompt, lora_request) ==
    LET t == _tokenize_prompt(prompt.prompt, lora_request)
    IN  IF ~t.ok THEN t
        ELSE WithCalls(Ok(Components(Some(prompt.prompt), Some(t.val),
                                     prompt.multi_modal_data,
                                     prompt.mm_processor_kwargs)),
                       t.calls)

_extract_prompt_components(prompt, lora_request) ==
    LET parsed == parse_singleton_prompt(prompt)
    IN  IF parsed = "str"
        THEN LET t == _tokenize_prompt(prompt.prompt, lora_request)
             IN  IF ~t.ok THEN t
                 ELSE WithCalls(Ok(Components(Some(prompt.prompt), Some(t.val), None, None)),
                                t.calls)
        ELSE IF parsed = "tokens"
        THEN WithCalls(Ok(Components(None, Some(prompt.prompt_token_ids),
                                     prompt.multi_modal_data, prompt.mm_processor_kwargs)),
                       <<>>)
        ELSE LET t == _tokenize_prompt(prompt.prompt, lora_request)
             IN  IF ~t.ok THEN t
                 ELSE WithCalls(Ok(Components(Some(prompt.prompt), Some(t.val),
                                              prompt.multi_modal_data,
                                              prompt.mm_processor_kwargs)),
                                t.calls)

------------------------------------------------------------------------------
(* InputPreprocessor: assembly *)

EncoderDecoderInputs(prompt_token_ids, prompt_text, multi_modal_data, mm_processor_kwargs, encoder_prompt_token_ids, encoder_prompt, encoder_multi_modal_data) ==
    [type |-> "EncoderDecoder",
     prompt_token_ids |-> prompt_token_ids,
     prompt |-> prompt_text,
     multi_modal_data |-> multi_modal_data,
     mm_processor_kwargs |-> mm_processor_kwargs,
     encoder_prompt_token_ids |-> encoder_prompt_token_ids,
     encoder_prompt |-> encoder_prompt,
     encoder_multi_modal_data |-> encoder_multi_modal_data]

DecoderOnlyInputs(prompt_token_ids, prompt_text, multi_modal_data, mm_processor_kwargs) ==
    [type |-> "DecoderOnly",
     prompt_token_ids |-> prompt_token_ids,
     prompt |-> prompt_text,
     multi_modal_data |-> multi_modal_data,
     mm_processor_kwargs |-> mm_processor_kwargs]

\* arguments of one invocation, as recorded in build_args / synth_args
BuildArgs(encoder_comps, decoder_comps, mm_processor_kwargs) ==
    [encoder_comps |-> encoder_comps, decoder_comps |-> decoder_comps,
     mm_processor_kwargs |-> mm_processor_kwargs]

SynthArgs(decoder_input_ids, force_bos) ==
    [decoder_input_ids |-> decoder_input_ids, force_bos |-> force_bos]

\* result of assembly with the record of what it invoked
WithTrace(r, build, synth) ==
    [ok |-> r.ok, val |-> r.val, err |-> r.err, build |-> build, synth |-> synth]

\* variant: decoder multi-modal data is not rejected
_build_enc_dec_llm_inputs_unchecked(encoder_comps, decoder_comps, mm_processor_kwargs) ==
    LET build == Some(BuildArgs(encoder_comps, decoder_comps, mm_processor_kwargs))
        force_bos == encoder_comps.multi_modal_data = None
                     /\ decoder_comps.multi_modal_data = None
        ids == _prepare_decoder_input_ids_for_generation(
                   decoder_comps.prompt_token_ids, force_bos)
        synth == Some(SynthArgs(decoder_comps.prompt_token_ids, force_bos))
    IN  IF ~ids.ok THEN WithTrace(ids, build, synth)
        ELSE WithTrace(
               Ok(EncoderDecoderInputs(ids.val,
                                       decoder_comps.prompt,
                                       decoder_comps.multi_modal_data,
                                       mm_processor_kwargs,
                                       encoder_comps.prompt_token_ids[1],
                                       encoder_comps.prompt,
                                       encoder_comps.multi_modal_data)),
               build, synth)

\* variant: force_bos is left at its default, whatever the encoder side carries
_build_enc_dec_llm_inputs_default_force_bos(encoder_comps, decoder_comps, mm_processor_kwargs) ==
    LET build == Some(BuildArgs(encoder_comps, decoder_comps, mm_processor_kwargs))
    IN  IF decoder_comps.multi_modal_data # None
        THEN WithTrace(Raise("UnsupportedMultiModalDecoderInput"), build, None)
        ELSE LET ids == _prepare_decoder_input_ids_for_generation(
                            decoder_comps.prompt_token_ids, TRUE)
                 synth == Some(SynthArgs(decoder_comps.prompt_token_ids, TRUE))
             IN  IF ~ids.ok THEN WithTrace(ids, build, synth)
                 ELSE WithTrace(
                        Ok(EncoderDecoderInputs(ids.val,
                                                decoder_comps.prompt,
                                                decoder_comps.multi_modal_data,
                                                mm_processor_kwargs,
                                                encoder_comps.prompt_token_ids[1],
                                                encoder_comps.prompt,
                                                encoder_comps.multi_modal_data)),
                        build, synth)

_build_enc_dec_llm_inputs(encoder_comps, decoder_comps, mm_processor_kwargs) ==
    LET build == Some(BuildArgs(encoder_comps, decoder_comps, mm_processor_kwargs))
    IN  IF decoder_comps.multi_modal_data # None
        THEN WithTrace(Raise("UnsupportedMultiModalDecoderInput"), build, None)
        ELSE LET force_bos == encoder_comps.multi_modal_data = None
                              /\ decoder_comps.multi_modal_data = None
                 ids == _prepare_decoder_input_ids_for_generation(
                            decoder_comps.prompt_token_ids, force_bos)
                 synth == Some(SynthArgs(decoder_comps.prompt_token_ids, force_bos))
             IN  IF ~ids.ok THEN WithTrace(ids, build, synth)
                 ELSE WithTrace(
                        Ok(EncoderDecoderInputs(ids.val,
                                                decoder_comps.prompt,
                                                decoder_comps.multi_modal_data,
                                                mm_processor_kwargs,
                                                encoder_comps.prompt_token_ids[1],
                                                encoder_comps.prompt,
                                                encoder_comps.multi_modal_data)),
                        build, synth)

_build_decoder_only_llm_inputs(prompt_comps, prompt_adapter_request) ==
    Ok(DecoderOnlyInputs(
           _apply_prompt_adapter(prompt_comps.prompt_token_ids[1], prompt_adapter_request),
           prompt_comps.prompt,
           prompt_comps.multi_modal_data,
           prompt_comps.mm_processor_kwargs))

------------------------------------------------------------------------------
(* InputPreprocessor: the blocking pipeline *)

\* the complete effect of one call: its result, tokenizer calls and invocations
Effect(r, calls, build, synth) ==
    [ok |-> r.ok, val |-> r.val, err |-> r.err,
     calls |-> calls, build |-> build, synth |-> synth]

\* prompt.get("mm_processor_kwargs", {})
GetKwargsOrEmpty(opt) == IF opt = None THEN EmptyKwargs ELSE opt[1]

_process_encoder_decoder_prompt(prompt) ==
    IF is_explicit_encoder_decoder_prompt(prompt)
    THEN LET e == _extract_prompt_components(prompt.encoder_prompt, None)
         IN  IF ~e.ok THEN Effect(e, e.calls, None, None)
             ELSE IF prompt.decoder_prompt = None
             THEN LET b == _build_enc_dec_llm_inputs(
                               e.val, NoComponents,
                               GetKwargsOrEmpty(prompt.mm_processor_kwargs))
                  IN  Effect(b, e.calls, b.build, b.synth)
             ELSE LET d == _extract_prompt_components(prompt.decoder_prompt[1], None)
                  IN  IF ~d.ok THEN Effect(d, e.calls \o d.calls, None, None)
                      ELSE LET b == _build_enc_dec_llm_inputs(
                                        e.val, d.val,
                                        GetKwargsOrEmpty(prompt.mm_processor_kwargs))
                           IN  Effect(b, e.calls \o d.calls, b.build, b.synth)
    ELSE LET e == _extract_prompt_components(prompt, None)
         IN  IF ~e.ok THEN Effect(e, e.calls, None, None)
             ELSE LET b == _build_enc_dec_llm_inputs(
                               e.val, NoComponents,
                               GetKwargsOrEmpty(e.val.mm_processor_kwargs))
                  IN  Effect(b, e.calls, b.build, b.synth)

_process_decoder_only_prompt(prompt, lora_request, prompt_adapter_request) ==
    LET c == _extract_prompt_components(prompt, lora_request)
    IN  IF ~c.ok THEN Effect(c, c.calls, None, None)
        ELSE Effect(_build_decoder_only_llm_inputs(c.val, prompt_adapter_request),
                    c.calls, None, None)

\* variant: the prompt shape is not checked; a pair's encoder prompt is processed
preprocess_without_shape_check(prompt, lora_request, prompt_adapter_request) ==
    IF is_encoder_decoder_model
    THEN _process_encoder_decoder_prompt(prompt)
    ELSE _process_decoder_only_prompt(
             IF is_explicit_encoder_decoder_prompt(prompt)
             THEN prompt.encoder_prompt ELSE prompt,
             lora_request, prompt_adapter_request)

\* variant: the prompt adapter is applied on the encoder/decoder path too
preprocess_adapter_everywhere(prompt, lora_request, prompt_adapter_request) ==
    IF is_encoder_decoder_model
    THEN LET r == _process_encoder_decoder_prompt(prompt)
         IN  IF ~r.ok THEN r
             ELSE [r EXCEPT !.val.prompt_token_ids =
                                _apply_prompt_adapter(@, prompt_adapter_request)]
    ELSE IF is_explicit_encoder_decoder_prompt(prompt)
    THEN Effect(Raise("IncompatiblePromptShape"), <<>>, None, None)
    ELSE _process_decoder_only_prompt(prompt, lora_request, prompt_adapter_request)

preprocess(prompt, lora_request, prompt_adapter_request) ==
    IF is_encoder_decoder_model
    THEN _process_encoder_decoder_prompt(prompt)
    ELSE IF is_explicit_encoder_decoder_prompt(prompt)
    THEN Effect(Raise("IncompatiblePromptShape"), <<>>, None, None)
    ELSE _process_decoder_only_prompt(prompt, lora_request, prompt_adapter_request)

\* outcome observed by the caller
OutcomeOf(r) == IF r.ok THEN Returned(r.val) ELSE Raised(r.err)

------------------------------------------------------------------------------
(* InputPreprocessor: the coroutine pipeline, split at its awaits *)

\* an extraction coroutine: none / created / waiting (in encode_async) / done / failed
Task(st, comps, err) == [st |-> st, comps |-> comps, err |-> err]

NoTask == Task("none", NoComponents, "")

\* result of running a coroutine up to its first await
WithTask(task, calls) == [task |-> task, calls |-> calls]

\* _tokenize_prompt_async up to `await tokenizer.encode_async(...)`
_tokenize_prompt_async(prompt, lora_request) ==
    IF ~get_tokenizer_group.ok
    THEN WithTask(Task("failed", NoComponents, get_tokenizer_group.err), <<>>)
    ELSE WithTask(Task("waiting", NoComponents, ""), <<EncodeCall(prompt, lora_request)>>)

\* _extract_prompt_components_async up to its first await
_extract_prompt_components_async(prompt, lora_request) ==
    LET parsed == parse_singleton_prompt(prompt)
    IN  IF parsed = "str" THEN _tokenize_prompt_async(prompt.prompt, lora_request)
        ELSE IF parsed = "tokens"
        THEN WithTask(Task("done",
                           Components(None, Some(prompt.prompt_token_ids),
                                      prompt.multi_modal_data, prompt.mm_processor_kwargs),
                           ""),
                      <<>>)
        ELSE _tokenize_prompt_async(prompt.prompt, lora_request)

\* _extract_prompt_components_async from the return of encode_async to its end
_extract_prompt_components_async_resume(prompt, encoded) ==
    LET parsed == parse_singleton_prompt(prompt)
    IN  IF ~encoded.ok THEN Task("failed", NoComponents, encoded.err)
        ELSE IF parsed = "str"
        THEN Task("done", Components(Some(prompt.prompt), Some(encoded.val), None, None), "")
        ELSE Task("done",
                  Components(Some(prompt.prompt), Some(encoded.val),
                             prompt.multi_modal_data, prompt.mm_processor_kwargs),
                  "")

\* the prompt whose extraction encoder_task runs
EncoderSide(prompt) ==
    IF is_explicit_encoder_decoder_prompt(prompt) THEN prompt.encoder_prompt ELSE prompt

\* _process_encoder_decoder_prompt_async after `await encoder_task` (decoder_prompt
\* is None: mm_processor_kwargs was never assigned) or after the singleton extraction
_process_encoder_decoder_prompt_async(prompt, task) ==
    IF task.st = "failed" THEN WithTrace(Raise(task.err), None, None)
    ELSE IF is_explicit_encoder_decoder_prompt(prompt)
    THEN WithTrace(Raise("UnboundLocalError"), None, None)
    ELSE _build_enc_dec_llm_inputs(task.comps, NoComponents,
                                   GetKwargsOrEmpty(task.comps.mm_processor_kwargs))

\* _process_encoder_decoder_prompt_async after `await asyncio.gather(...)`;
\* first_err is the exception gather raised, if any
_process_encoder_decoder_prompt_async_gathered(prompt, enc_task, dec_task, first_err) ==
    IF first_err # "" THEN WithTrace(Raise(first_err), None, None)
    ELSE IF prompt.mm_processor_kwargs = None
    THEN WithTrace(Raise("KeyError"), None, None)
    ELSE _build_enc_dec_llm_inputs(enc_task.comps, dec_task.comps,
                                   prompt.mm_processor_kwargs[1])

\* _process_decoder_only_prompt_async after its await
_process_decoder_only_prompt_async(task, prompt_adapter_request) ==
    IF task.st = "failed" THEN WithTrace(Raise(task.err), None, None)
    ELSE WithTrace(_build_decoder_only_llm_inputs(task.comps, prompt_adapter_request),
                   None, None)

\* preprocess_async from the end of its single awaited extraction
preprocess_async_resume(prompt, prompt_adapter_request, task) ==
    IF is_encoder_decoder_model
    THEN _process_encoder_decoder_prompt_async(prompt, task)
    ELSE _process_decoder_only_prompt_async(task, prompt_adapter_request)

------------------------------------------------------------------------------
(* State machine *)

Call(mode, prompt, lora_request, prompt_adapter_request) ==
    Some([mode |-> mode, prompt |-> prompt, lora_request |-> lora_request,
          prompt_adapter_request |-> prompt_adapter_request])

Init ==
    /\ model_config \in ModelConfigs
    /\ tokenizer \in Tokenizers
    /\ pc = "idle"
    /\ call = None
    /\ encoder_task = NoTask
    /\ decoder_task = NoTask
    /\ outcome = NoOutcome
    /\ encode_log = <<>>
    /\ build_args = None
    /\ synth_args = None

\* a blocking call of preprocess runs to its end
CallPreprocess ==
    /\ pc = "idle"
    /\ \E prompt \in Prompts, lora_request \in LoraRequests,
          prompt_adapter_request \in PromptAdapterRequests :
          LET r == preprocess(prompt, lora_request, prompt_adapter_request)
          IN  /\ call' = Call("sync", prompt, lora_request, prompt_adapter_request)
              /\ outcome' = OutcomeOf(r)
              /\ encode_log' = r.calls
              /\ build_args' = r.build
              /\ synth_args' = r.synth
    /\ pc' = "done"
    /\ UNCHANGED <<model_config, tokenizer, encoder_task, decoder_task>>

\* preprocess_async runs up to its first suspension
CallPreprocessAsync ==
    /\ pc = "idle"
    /\ \E prompt \in Prompts, lora_request \in LoraRequests,
          prompt_adapter_request \in PromptAdapterRequests :
          /\ call' = Call("async", prompt, lora_request, prompt_adapter_request)
          /\ IF ~is_encoder_decoder_model /\ is_explicit_encoder_decoder_prompt(prompt)
             THEN /\ pc' = "done"
                  /\ outcome' = Raised("IncompatiblePromptShape")
                  /\ UNCHANGED <<encoder_task, decoder_task, encode_log,
                                 build_args, synth_args>>
             ELSE IF is_encoder_decoder_model
                     /\ is_explicit_encoder_decoder_prompt(prompt)
                     /\ prompt.decoder_prompt # None
             THEN \* both coroutines are created and handed to asyncio.gather
                  /\ pc' = "gather"
                  /\ encoder_task' = Task("created", NoComponents, "")
                  /\ decoder_task' = Task("created", NoComponents, "")
                  /\ UNCHANGED <<outcome, encode_log, build_args, synth_args>>
             ELSE LET b == _extract_prompt_components_async(
                               EncoderSide(prompt),
                               IF is_encoder_decoder_model THEN None ELSE lora_request)
                      r == preprocess_async_resume(prompt, prompt_adapter_request, b.task)
                  IN  /\ encoder_task' = b.task
                      /\ encode_log' = b.calls
                      /\ UNCHANGED decoder_task
                      /\ IF b.task.st = "waiting"
                         THEN /\ pc' = "await_extract"
                              /\ UNCHANGED <<outcome, build_args, synth_args>>
                         ELSE /\ pc' = "done"
                              /\ outcome' = OutcomeOf(r)
                              /\ build_args' = r.build
                              /\ synth_args' = r.synth
    /\ UNCHANGED <<model_config, tokenizer>>

\* encode_async returns into the single awaited extraction; the call runs to its end
EncodeAsyncReturn ==
    /\ pc = "await_extract"
    /\ encoder_task.st = "waiting"
    /\ LET c == call[1]
           t == _extract_prompt_components_async_resume(
                    EncoderSide(c.prompt), encode(EncoderSide(c.prompt).prompt))
           r == preprocess_async_resume(c.prompt, c.prompt_adapter_request, t)
       IN  /\ encoder_task' = t
           /\ outcome' = OutcomeOf(r)
           /\ build_args' = r.build
           /\ synth_args' = r.synth
    /\ pc' = "done"
    /\ UNCHANGED <<model_config, tokenizer, call, decoder_task, encode_log>>

\* the event loop runs encoder_task (scheduled first by gather) up to its first await
EncoderTaskStep ==
    /\ encoder_task.st = "created"
    /\ LET b == _extract_prompt_components_async(call[1].prompt.encoder_prompt, None)
       IN  /\ encoder_task' = b.task
           /\ encode_log' = encode_log \o b.calls
    /\ UNCHANGED <<model_config, tokenizer, pc, call, decoder_task, outcome,
                   build_args, synth_args>>

\* variant: decoder_task is run only once encoder_task has finished
DecoderTaskStepAfterEncoder ==
    /\ decoder_task.st = "created"
    /\ encoder_task.st \in {"done", "failed"}
    /\ LET b == _extract_prompt_components_async(call[1].prompt.decoder_prompt[1], None)
       IN  /\ decoder_task' = b.task
           /\ encode_log' = encode_log \o b.calls
    /\ UNCHANGED <<model_config, tokenizer, pc, call, encoder_task, outcome,
                   build_args, synth_args>>

\* the event loop runs decoder_task up to its first await
DecoderTaskStep ==
    /\ decoder_task.st = "created"
    /\ encoder_task.st # "created"
    /\ LET b == _extract_prompt_components_async(call[1].prompt.decoder_prompt[1], None)
       IN  /\ decoder_task' = b.task
           /\ encode_log' = encode_log \o b.calls
    /\ UNCHANGED <<model_config, tokenizer, pc, call, encoder_task, outcome,
                   build_args, synth_args>>

\* encode_async returns into encoder_task
EncoderEncodeReturn ==
    /\ pc # "await_extract"
    /\ encoder_task.st = "waiting"
    /\ LET p == call[1].prompt.encoder_prompt
       IN  encoder_task' = _extract_prompt_components_async_resume(p, encode(p.prompt))
    /\ UNCHANGED <<model_config, tokenizer, pc, call, decoder_task, outcome,
                   encode_log, build_args, synth_args>>

\* encode_async returns into decoder_task
DecoderEncodeReturn ==
    /\ decoder_task.st = "waiting"
    /\ LET p == call[1].prompt.decoder_prompt[1]
       IN  decoder_task' = _extract_prompt_components_async_resume(p, encode(p.prompt))
    /\ UNCHANGED <<model_config, tokenizer, pc, call, encoder_task, outcome,
                   encode_log, build_args, synth_args>>

\* variant: the join waits for both results and never sees an exception
GatherJoinBothDone ==
    /\ pc = "gather"
    /\ encoder_task.st = "done"
    /\ decoder_task.st = "done"
    /\ LET r == _process_encoder_decoder_prompt_async_gathered(
                    call[1].prompt, encoder_task, decoder_task, "")
       IN  /\ outcome' = OutcomeOf(r)
           /\ build_args' = r.build
           /\ synth_args' = r.synth
    /\ pc' = "done"
    /\ UNCHANGED <<model_config, tokenizer, call, encoder_task, decoder_task, encode_log>>

\* asyncio.gather completes: with the first exception, or with both results
GatherJoin ==
    /\ pc = "gather"
    /\ \/ /\ encoder_task.st = "done"
          /\ decoder_task.st = "done"
          /\ LET r == _process_encoder_decoder_prompt_async_gathered(
                          call[1].prompt, encoder_task, decoder_task, "")
             IN  /\ outcome' = OutcomeOf(r)
                 /\ build_args' = r.build
                 /\ synth_args' = r.synth
       \/ \E t \in {encoder_task, decoder_task} :
             /\ t.st = "failed"
             /\ LET r == _process_encoder_decoder_prompt_async_gathered(
                             call[1].prompt, encoder_task, decoder_task, t.err)
                IN  /\ outcome' = OutcomeOf(r)
                    /\ build_args' = r.build
                    /\ synth_args' = r.synth
    /\ pc' = "done"
    /\ UNCHANGED <<model_config, tokenizer, call, encoder_task, decoder_task, encode_log>>

Settled(task) == task.st \in {"none", "done", "failed"}

\* the caller takes the outcome; the preprocessor is ready for the next call
Return ==
    /\ pc = "done"
    /\ Settled(encoder_task)
    /\ Settled(decoder_task)
    /\ pc' = "idle"
    /\ call' = None
    /\ encoder_task' = NoTask
    /\ decoder_task' = NoTask
    /\ outcome' = NoOutcome
    /\ encode_log' = <<>>
    /\ build_args' = None
    /\ synth_args' = None
    /\ UNCHANGED <<model_config, tokenizer>>

Next ==
    \/ CallPreprocess
    \/ CallPreprocessAsync
    \/ EncodeAsyncReturn
    \/ EncoderTaskStep
    \/ DecoderTaskStep
    \/ EncoderEncodeReturn
    \/ DecoderEncodeReturn
    \/ GatherJoin
    \/ Return

Spec == Init /\ [][Next]_vars

TypeOK ==
    /\ pc \in {"idle", "await_extract", "gather", "done"}
    /\ outcome.kind \in {"none", "ok", "err"}
    /\ encoder_task.st \in {"none", "created", "waiting", "done", "failed"}
    /\ decoder_task.st \in {"none", "created", "waiting", "done", "failed"}

\* every coroutine step and tokenizer return that is possible eventually happens
FairSpec ==
    /\ Spec
    /\ WF_vars(EncodeAsyncReturn)
    /\ WF_vars(EncoderTaskStep)
    /\ WF_vars(DecoderTaskStep)
    /\ WF_vars(EncoderEncodeReturn)
    /\ WF_vars(DecoderEncodeReturn)
    /\ WF_vars(GatherJoin)

------------------------------------------------------------------------------
(* Vocabulary of the properties *)

Finished == pc = "done"

CallPrompt == call[1].prompt

IsAsync == call[1].mode = "async"

IsPair == CallPrompt.type = "pair"

Succeeded == outcome.kind = "ok"

Result == outcome.value[1]

\* the model's configured decoder_start_token_id, or None
ConfiguredStart ==
    IF model_config.hf_config = None THEN None
    ELSE model_config.hf_config[1].decoder_start_token_id

\* the tokenizer's BOS id, or None when there is no tokenizer or no BOS
AvailableBos == IF tokenizer = None THEN None ELSE tokenizer[1].bos_token_id

\* the configured decoder-start id, or BOS when none is configured
ResolvedStart ==
    IF model_config.hf_config = None THEN None
    ELSE IF ConfiguredStart # None THEN ConfiguredStart ELSE AvailableBos

\* s is the sequence of n zeros followed by t
IsZerosThen(s, n, t) ==
    /\ Len(s) = n + Len(t)
    /\ \A i \in 1..n : s[i] = 0
    /\ \A i \in 1..Len(t) : s[n + i] = t[i]

\* the singleton prompts a call carries
SubPrompts(prompt) ==
    IF prompt.type = "pair"
    THEN {prompt.encoder_prompt} \cup
         (IF prompt.decoder_prompt = None THEN {} ELSE {prompt.decoder_prompt[1]})
    ELSE {prompt}

------------------------------------------------------------------------------
(* Properties *)

\* C1: preprocess_async ends in the same outcome (equal result or same error)
\* as preprocess on the same configuration and arguments.
C1_AsyncSameAsSync ==
    (Finished /\ IsAsync) =>
        outcome = OutcomeOf(preprocess(CallPrompt, call[1].lora_request,
                                       call[1].prompt_adapter_request))

\* C2: on a model that is not encoder/decoder, a call with an explicit
\* encoder/decoder pair fails with IncompatiblePromptShape and returns nothing.
C2_PairRejectedByDecoderOnly ==
    (Finished /\ ~model_config.is_encoder_decoder_model /\ IsPair) =>
        /\ outcome.kind = "err"
        /\ outcome.error = "IncompatiblePromptShape"
        /\ outcome.value = None

C2_Witness ==
    /\ Finished
    /\ ~model_config.is_encoder_decoder_model
    /\ IsPair
    /\ CallPrompt.decoder_prompt # None
    /\ call[1].mode = "sync"
    /\ outcome.error = "IncompatiblePromptShape"

C4_DecoderMultiModalRejected ==
    /\ (Finished /\ build_args # None
           /\ build_args[1].decoder_comps.multi_modal_data # None) =>
           /\ outcome.kind = "err"
           /\ outcome.error = "UnsupportedMultiModalDecoderInput"
    /\ (Finished /\ Succeeded /\ Result.type = "EncoderDecoder") =>
           Result.multi_modal_data = None

C4_Witness ==
    /\ Finished
    /\ build_args # None
    /\ build_args[1].decoder_comps.multi_modal_data = Some("image")
    /\ outcome.error = "UnsupportedMultiModalDecoderInput"

\* the token ids extraction yields for a singleton prompt that extracts
ExtractedIds(prompt) ==
    IF prompt.type = "tokens" THEN prompt.prompt_token_ids ELSE encode(prompt.prompt).val

\* C5: on the decoder-only path the returned token ids are N zeros followed by
\* the extracted ids, N being the prompt adapter's virtual-token count; without
\* an adapter or with N = 0 they are the extracted ids.
C5_AdapterZerosPrepended ==
    (Finished /\ ~model_config.is_encoder_decoder_model /\ Succeeded) =>
        LET par == call[1].prompt_adapter_request
            n == IF par = None THEN 0 ELSE par[1].prompt_adapter_num_virtual_tokens
        IN  /\ IsZerosThen(Result.prompt_token_ids, n, ExtractedIds(CallPrompt))
            /\ n = 0 => Result.prompt_token_ids = ExtractedIds(CallPrompt)

C5_Witness ==
    /\ Finished
    /\ ~model_config.is_encoder_decoder_model
    /\ Succeeded
    /\ call[1].prompt_adapter_request = Some([prompt_adapter_num_virtual_tokens |-> 1])
    /\ CallPrompt.type = "text"
    /\ Result.prompt_token_ids = <<0, 7, 8>>

\* how many of the singleton prompts a call carries are text-shaped
TextSides(prompt) ==
    IF prompt.type = "pair"
    THEN (IF prompt.encoder_prompt.type # "tokens" THEN 1 ELSE 0)
         + (IF prompt.decoder_prompt # None /\ prompt.decoder_prompt[1].type # "tokens"
            THEN 1 ELSE 0)
    ELSE (IF prompt.type # "tokens" THEN 1 ELSE 0)

\* the components extraction yields for a pre-tokenized prompt
PassedThrough(prompt, comps) ==
    /\ comps.prompt = None
    /\ comps.prompt_token_ids = Some(prompt.prompt_token_ids)

\* C6: extraction of a pre-tokenized prompt returns its ids unchanged with no
\* display text and calls no tokenizer, also when no tokenizer is configured;
\* only text-shaped prompts reach the tokenizer.
C6_TokensPassThroughWithoutTokenizer ==
    /\ \* every tokenizer call is for a text-shaped prompt of the call
       call # None =>
           /\ \A i \in 1..Len(encode_log) :
                  \E p \in SubPrompts(CallPrompt) :
                      p.type # "tokens" /\ p.prompt = encode_log[i].prompt
           /\ Len(encode_log) <= TextSides(CallPrompt)
    /\ call = None => encode_log = <<>>
    /\ \* decoder-only path: the call succeeds, tokenizer or not
       (Finished /\ ~model_config.is_encoder_decoder_model /\ CallPrompt.type = "tokens") =>
           /\ Succeeded
           /\ Result.prompt = None
           /\ call[1].prompt_adapter_request = None =>
                  Result.prompt_token_ids = CallPrompt.prompt_token_ids
           /\ encode_log = <<>>
    /\ \* encoder/decoder path, singleton prompt: assembly receives the ids
       (Finished /\ model_config.is_encoder_decoder_model /\ CallPrompt.type = "tokens") =>
           /\ build_args # None
           /\ PassedThrough(CallPrompt, build_args[1].encoder_comps)
           /\ encode_log = <<>>
    /\ \* explicit pair: each pre-tokenized side that assembly receives
       (Finished /\ IsPair /\ build_args # None) =>
           /\ CallPrompt.encoder_prompt.type = "tokens" =>
                  PassedThrough(CallPrompt.encoder_prompt, build_args[1].encoder_comps)
           /\ (CallPrompt.decoder_prompt # None
                  /\ CallPrompt.decoder_prompt[1].type = "tokens") =>
                  PassedThrough(CallPrompt.decoder_prompt[1], build_args[1].decoder_comps)
    /\ \* the coroutines of a pre-tokenized side finish without waiting
       (call # None /\ IsPair /\ CallPrompt.encoder_prompt.type = "tokens"
               /\ encoder_task.st \notin {"none", "created"}) =>
           /\ encoder_task.st = "done"
           /\ PassedThrough(CallPrompt.encoder_prompt, encoder_task.comps)
    /\ (call # None /\ IsPair /\ CallPrompt.decoder_prompt # None
               /\ CallPrompt.decoder_prompt[1].type = "tokens"
               /\ decoder_task.st \notin {"none", "created"}) =>
           /\ decoder_task.st = "done"
           /\ PassedThrough(CallPrompt.decoder_prompt[1], decoder_task.comps)

C6_Witness ==
    /\ Finished
    /\ tokenizer = None
    /\ ~model_config.is_encoder_decoder_model
    /\ CallPrompt.type = "tokens"
    /\ CallPrompt.prompt_token_ids = <<1, 2>>
    /\ IsAsync
    /\ Succeeded
    /\ Result.prompt_token_ids = <<1, 2>>
    /\ encode_log = <<>>

\* a call of preprocess_async that gathers two extractions
Gathers ==
    /\ call # None
    /\ IsAsync
    /\ model_config.is_encoder_decoder_model
    /\ IsPair
    /\ CallPrompt.decoder_prompt # None

\* C7: with an explicit pair whose decoder is present, preprocess_async starts
\* both extractions before it awaits, the decoder side can start and finish
\* while the encoder side is still in the tokenizer, and assembly starts only
\* after both extractions have completed.
C7_ConcurrentExtractionJoinedBeforeAssembly ==
    /\ pc = "gather" => (encoder_task.st # "none" /\ decoder_task.st # "none")
    /\ (Gathers /\ encoder_task.st = "waiting" /\ decoder_task.st = "created") =>
           ENABLED DecoderTaskStep
    /\ (Gathers /\ encoder_task.st = "waiting" /\ decoder_task.st = "waiting") =>
           ENABLED DecoderEncodeReturn
    /\ (Gathers /\ build_args # None) =>
           /\ encoder_task.st = "done"
           /\ decoder_task.st = "done"
           /\ build_args[1].encoder_comps = encoder_task.comps
           /\ build_args[1].decoder_comps = decoder_task.comps

C7_Witness ==
    /\ pc = "gather"
    /\ encoder_task.st = "waiting"
    /\ decoder_task.st = "done"
    /\ CallPrompt.decoder_prompt[1].type = "str"
    /\ Len(encode_log) = 2

\* a finished call has exactly one of: a result, a raised error
ExactlyOneOutcome ==
    \/ outcome.kind = "ok" /\ outcome.value # None /\ outcome.error = ""
    \/ outcome.kind = "err" /\ outcome.value = None /\ outcome.error # ""

\* some extraction of the call failed: a coroutine failed, or the tokenizer was
\* called on a text it rejects
ExtractionFailed ==
    \/ encoder_task.st = "failed"
    \/ decoder_task.st = "failed"
    \/ \E i \in 1..Len(encode_log) : ~encode(encode_log[i].prompt).ok

\* C8: every started call eventually ends, with a result or with an error and
\* never both; a call one of whose extractions failed ends with an error.
C8_CallEndsWithOneOutcome ==
    /\ [](pc \in {"await_extract", "gather"} => <>(pc = "done"))
    /\ [](Finished => ExactlyOneOutcome)
    /\ []((Finished /\ ExtractionFailed) => (outcome.kind = "err" /\ outcome.value = None))

C8_Witness ==
    /\ Finished
    /\ Gathers
    /\ encoder_task.st = "done"
    /\ decoder_task.st = "failed"
    /\ outcome.kind = "err"
    /\ outcome.error = "EncodeFailed"

\* the sequence synthesis works on: the given ids, or [BOS] when they are None
SynthInput ==
    IF synth_args[1].decoder_input_ids = None THEN <<AvailableBos[1]>>
    ELSE synth_args[1].decoder_input_ids[1]

\* C9: with force_bos, synthesis prepends the resolved decoder-start id exactly
\* when the sequence is empty or starts with another id, else leaves it as is.
C9_ForceBosPrependsOnce ==
    (Finished /\ synth_args # None /\ synth_args[1].force_bos /\ Succeeded) =>
        LET d == SynthInput
            s == ResolvedStart[1]
            r == Result.prompt_token_ids
        IN  /\ (Len(d) = 0 \/ d[1] # s) => r = <<s>> \o d
            /\ (Len(d) > 0 /\ d[1] = s) => r = d
            /\ (d = <<1, 2>> /\ s = 5) => r = <<5, 1, 2>>
            /\ (d = <<5, 1, 2>> /\ s = 5) => r = <<5, 1, 2>>

C9_Witness ==
    /\ Finished
    /\ synth_args # None
    /\ synth_args[1].force_bos
    /\ synth_args[1].decoder_input_ids = Some(<<1, 2>>)
    /\ ResolvedStart = Some(5)
    /\ Succeeded
    /\ Result.prompt_token_ids = <<5, 1, 2>>

\* C10 as stated: synthesis with null decoder ids and no BOS fails with
\* MissingBosToken whatever the decoder-start configuration; synthesis with an
\* unresolvable decoder-start token fails with MissingDecoderStartToken.
C10_MissingBosForEveryStartConfig ==
    /\ (Finished /\ synth_args # None /\ synth_args[1].decoder_input_ids = None
           /\ AvailableBos = None) =>
           (outcome.kind = "err" /\ outcome.error = "MissingBosToken")
    /\ (Finished /\ synth_args # None /\ ResolvedStart = None) =>
           (outcome.kind = "err" /\ outcome.error = "MissingDecoderStartToken")

\* C10 amended: MissingBosToken is the failure when the decoder-start token
\* resolves (it is configured); an unresolvable decoder-start token fails with
\* MissingDecoderStartToken first, also when the ids are null and BOS is missing.
C10_MissingSpecialTokens ==
    /\ (Finished /\ synth_args # None /\ synth_args[1].decoder_input_ids = None
           /\ AvailableBos = None /\ ResolvedStart # None) =>
           (outcome.kind = "err" /\ outcome.error = "MissingBosToken")
    /\ (Finished /\ synth_args # None /\ ResolvedStart = None) =>
           (outcome.kind = "err" /\ outcome.error = "MissingDecoderStartToken")

C10_Witness ==
    /\ Finished
    /\ synth_args # None
    /\ synth_args[1].decoder_input_ids = None
    /\ AvailableBos = None
    /\ ConfiguredStart = Some(5)
    /\ outcome.error = "MissingBosToken"

\* the processor options the encoder/decoder path is to hand to assembly: the
\* pair's own field, or the encoder prompt's options for a singleton, or empty
ExpectedKwargs(prompt) ==
    IF prompt.type = "pair"
    THEN (IF prompt.mm_processor_kwargs # None THEN prompt.mm_processor_kwargs[1]
          ELSE "{}")
    ELSE (IF prompt.type = "str" \/ prompt.mm_processor_kwargs = None THEN "{}"
          ELSE prompt.mm_processor_kwargs[1])

\* the call failed in extraction, before any processor options are resolved
FailedInExtraction ==
    outcome.kind = "err" /\ outcome.error \in {"TokenizerUnavailable", "EncodeFailed"}

\* C11: on the encoder/decoder path, in both forms, a call whose extractions
\* succeed hands assembly the pair's own mm_processor_kwargs (empty when the
\* field is missing), or for a singleton the encoder prompt's options (empty
\* when null), and a returned result carries those options.
C11_ProcessorOptionsResolved ==
    (Finished /\ model_config.is_encoder_decoder_model /\ ~FailedInExtraction) =>
        /\ build_args # None
        /\ build_args[1].mm_processor_kwargs = ExpectedKwargs(CallPrompt)
        /\ Succeeded => Result.mm_processor_kwargs = ExpectedKwargs(CallPrompt)

\* the blocking form alone resolves the options as C11 states
C11_BlockingOptionsResolved ==
    (Finished /\ ~IsAsync) => C11_ProcessorOptionsResolved

\* C12: on the encoder/decoder path force_bos is true exactly when neither
\* side carries multi-modal data; when the encoder side carries it, decoder
\* token ids supplied by the caller are returned unaltered, also when they
\* are empty or start with another id than the decoder-start token.
C12_ForceBosOnlyWithoutPayload ==
    /\ (synth_args # None /\ build_args # None) =>
           (synth_args[1].force_bos <=>
               (/\ build_args[1].encoder_comps.multi_modal_data = None
                /\ build_args[1].decoder_comps.multi_modal_data = None))
    /\ (build_args # None /\ build_args[1].decoder_comps.multi_modal_data = None) =>
           synth_args # None
    /\ (Finished /\ Succeeded /\ build_args # None
           /\ build_args[1].encoder_comps.multi_modal_data # None
           /\ build_args[1].decoder_comps.prompt_token_ids # None) =>
           Result.prompt_token_ids = build_args[1].decoder_comps.prompt_token_ids[1]
    /\ (Finished /\ build_args # None
           /\ build_args[1].encoder_comps.multi_modal_data # None
           /\ build_args[1].decoder_comps.multi_modal_data = None
           /\ build_args[1].decoder_comps.prompt_token_ids # None
           /\ ResolvedStart # None) =>
           Succeeded

C12_Witness ==
    /\ Finished
    /\ IsAsync
    /\ Succeeded
    /\ build_args # None
    /\ build_args[1].encoder_comps.multi_modal_data = Some("image")
    /\ build_args[1].decoder_comps.prompt_token_ids = Some(<<1, 2>>)
    /\ synth_args # None
    /\ ~synth_args[1].force_bos
    /\ ResolvedStart = Some(5)
    /\ Result.prompt_token_ids = <<1, 2>>

\* what a call on an encoder/decoder model ends in, as a function of the
\* configuration, the form and the prompt alone: the blocking outcome with no
\* selectors, except where the coroutine form fails on an explicit pair (C1)
SelectorFreeOutcome(mode, prompt) ==
    LET blocking == OutcomeOf(preprocess(prompt, None, None))
    IN  IF mode = "sync" THEN blocking
        ELSE IF blocking.kind = "err"
                /\ blocking.error \in {"TokenizerUnavailable", "EncodeFailed"}
        THEN blocking
        ELSE IF prompt.type = "pair" /\ prompt.decoder_prompt = None
        THEN Raised("UnboundLocalError")
        ELSE IF prompt.type = "pair" /\ prompt.mm_processor_kwargs = None
        THEN Raised("KeyError")
        ELSE blocking

\* C13: on an encoder/decoder model the outcome does not depend on
\* lora_request or prompt_adapter_request: it is the outcome of the same call
\* without selectors, no placeholder tokens are prepended to the encoder or
\* decoder token ids, and every tokenizer call is made with no LoRA selector.
C13_SelectorsIgnoredByEncoderDecoder ==
    /\ (Finished /\ model_config.is_encoder_decoder_model) =>
           outcome = SelectorFreeOutcome(call[1].mode, CallPrompt)
    /\ (Finished /\ model_config.is_encoder_decoder_model /\ Succeeded) =>
           /\ Result.encoder_prompt_token_ids = ExtractedIds(EncoderSide(CallPrompt))
           /\ (IsPair /\ CallPrompt.decoder_prompt # None
                  /\ CallPrompt.decoder_prompt[1].type = "str") =>
                  (\/ Result.prompt_token_ids = <<7, 8>>
                   \/ Result.prompt_token_ids = <<ResolvedStart[1], 7, 8>>)
    /\ (call # None /\ model_config.is_encoder_decoder_model) =>
           \A i \in 1..Len(encode_log) : encode_log[i].lora_request = None

C13_Witness ==
    /\ Finished
    /\ model_config.is_encoder_decoder_model
    /\ IsAsync
    /\ call[1].lora_request = Some("lora1")
    /\ call[1].prompt_adapter_request = Some([prompt_adapter_num_virtual_tokens |-> 1])
    /\ CallPrompt.type = "str"
    /\ Succeeded
    /\ Result.encoder_prompt_token_ids = <<7, 8>>
    /\ encode_log = <<[prompt |-> "hi", lora_request |-> None]>>

====
